---- MODULE Spec2Model ----
\* A model of the streaming transport of whisper_streaming:
\*   src/whisper_online_server.py  (Connection, ServerProcessor, server loop)
\*   src/generate_raw_realtime.py  (send_audio_in_chunks, try_receive_response,
\*                                  wait_for_final_responses)
\* Byte counts are scaled: one second of audio is SAMPLING_RATE samples of two
\* bytes, with SAMPLING_RATE scaled from 16000 down to 1, so that a frame of
\* PACKET_SIZE = 2*SAMPLING_RATE*2 bytes is 4 bytes long.  Times of recognizer
\* intervals are counted in ticks of half a millisecond, so that the "%1.0f"
\* formatting of a millisecond value has something to round.
EXTENDS Integers, Sequences, FiniteSets, TLC

\* ---------------------------------------------------------------- bounds
MaxConns == 2          \* connections the peers open during a run
MaxBytes == 5          \* bytes all peers together write to the server
MaxStream == 9         \* bytes the peer of a single connection writes
MaxTick  == 2          \* largest recognizer timestamp, in half-millisecond ticks
MaxPcm   == 5          \* bytes the transcoder produces for the client
MaxLines == 2          \* lines the server side writes to the client
MaxInFlight == 8       \* bytes the socket buffers hold between client and server

\* --------------------------------------------------- program constants
SAMPLING_RATE == 1                      \* samples per second (scaled from 16000)
PACKET_SIZE   == 2 * SAMPLING_RATE * 2  \* 2 seconds of audio, 16 bit, mono

Conns == 1..MaxConns
Byte  == {0, 1}
\* the values --min-chunk-size is started with here, in seconds
MinChunkSizes == {1, 3}
\* the texts the recognizer returns: empty, or two words on two lines
Texts == {<< >>, <<"x", "\n", "x">>}
Ticks == 0..MaxTick
\* process_iter() returns (beg, end, text) or (None, None, "")
NoOutput == [none |-> TRUE, beg |-> 0, end |-> 0, text |-> << >>]
Outputs == {NoOutput} \cup
           [none : {FALSE}, beg : Ticks, end : Ticks, text : Texts]
None == -1             \* the value of last_end before the first interval

VARIABLES
    \* the network and the peers of the server
    peer,           \* peer[p]: "idle", "open", "fin" (clean close), "rst" (reset)
    backlog,        \* connections made and not yet accepted, oldest first
    c2s,            \* c2s[p]: bytes in flight to the server on connection p
    s2c,            \* s2c[p]: characters in flight from the server on connection p
    written,        \* written[p]: every byte the peer has written on connection p
    \* the server
    srv_pc,         \* where the server loop stands
    conn,           \* the accepted connection (0 before the first accept)
    sockClosed,     \* sockClosed[p]: the server has called conn.close() on p
    min_chunk,      \* args.min_chunk_size
    buffer,         \* non_blocking_receive_audio: buffer
    bytes_needed,   \* non_blocking_receive_audio: bytes_needed
    raw_bytes,      \* receive_audio_chunk: raw_bytes (<< >> stands for None)
    is_first,       \* ServerProcessor.is_first
    chunk_num,      \* ServerProcessor.chunk_num
    last_end,       \* ServerProcessor.last_end, in ticks, or None
    o,              \* process: the recognizer's output o
    \* history of the session of connection conn
    frames,         \* the frames non_blocking_receive_audio has returned
    eos,            \* non_blocking_receive_audio has returned None
    inserted,       \* lengths of the buffers decoded and given to insert_audio_chunk
    processed,      \* number of process_iter() calls that returned
    sent,           \* the lines given to Connection.send that were sent
    sendFailed,     \* a send raised
    opened,         \* opened[p]: number of accepts that returned connection p
    \* the client harness, on connection 1
    cl_pc,          \* where send_audio_in_chunks stands ("off": no client)
    chunk_seconds,  \* chunk_seconds, in quarters of a second
    pcm0,           \* the whole output of the transcoder
    pcm,            \* the output of the transcoder not yet read
    data,           \* send_audio_in_chunks: data
    chunk_count,    \* send_audio_in_chunks: chunk_count
    total_bytes_sent,   \* send_audio_in_chunks: total_bytes_sent
    chunk_timestamps,   \* the queue of the chunks waiting for a response
    cl_error,       \* send_audio_in_chunks has reached its except clause
    \* history of the client
    matched,        \* the responses reported: chunk number and message
    reported,       \* the chunks listed as having no response
    recvs,          \* number of sock.recv calls that returned data
    lines_out,      \* the lines the server has written to the client
    eof_seen        \* a recv of wait_for_final_responses has returned b''

netVars == <<peer, backlog, c2s, s2c, written>>
recvVars == <<buffer, bytes_needed, raw_bytes, frames, eos>>
procVars == <<is_first, chunk_num, last_end, o, inserted, processed, sent, sendFailed>>
loopVars == <<srv_pc, conn, sockClosed, min_chunk, opened>>
srvVars == <<loopVars, recvVars, procVars>>
cliVars == <<cl_pc, chunk_seconds, pcm0, pcm, data, chunk_count, total_bytes_sent,
             chunk_timestamps, cl_error, matched, reported, recvs, lines_out, eof_seen>>
vars == <<netVars, srvVars, cliVars>>

\* ---------------------------------------------------------------- helpers
Min(a, b) == IF a < b THEN a ELSE b
Max(a, b) == IF a > b THEN a ELSE b

RECURSIVE Concat(_)
Concat(ss) == IF ss = << >> THEN << >> ELSE Head(ss) \o Concat(Tail(ss))

Take(s, k) == SubSeq(s, 1, k)
Drop(s, k) == SubSeq(s, k + 1, Len(s))

\* str.replace("\n", " ")
ReplaceNewlines(s) == [i \in 1..Len(s) |-> IF s[i] = "\n" THEN " " ELSE s[i]]

\* "%1.0f" % x for x = t/2 milliseconds: the nearest integer, a tie to the even one
Format(t) ==
    IF t % 2 = 0 THEN t \div 2
    ELSE IF ((t - 1) \div 2) % 2 = 0 THEN (t - 1) \div 2 ELSE (t + 1) \div 2

\* the samples soundfile decodes from a PCM_16 mono buffer of n bytes
Samples(n) == n \div 2

\* ------------------------------------------------- the lines of the server
NoInputLine == [kind |-> "noinput", beg |-> 0, end |-> 0, text |-> << >>]

\* format_output_transcript without the clamp of beg
ClampBeg_Unclamped(beg, le) == beg

\* format_output_transcript: beg is the max of the previous end and the beg
\* the recognizer gives
ClampBeg(beg, le) == IF le # None THEN Max(beg, le) ELSE beg

\* format_output_transcript that never moves last_end back
FormatOutputTranscript_LatestEnd(out, le) ==
    IF ~out.none
    THEN [line |-> [kind |-> "interval",
                    beg  |-> Format(ClampBeg(out.beg, le)),
                    end  |-> Format(out.end),
                    text |-> out.text],
          last_end |-> Max(le, out.end)]
    ELSE [line |-> NoInputLine, last_end |-> le]

\* format_output_transcript(o) with self.last_end = le: the line returned and
\* the new value of self.last_end
FormatOutputTranscript(out, le) ==
    IF ~out.none
    THEN [line |-> [kind |-> "interval",
                    beg  |-> Format(ClampBeg(out.beg, le)),
                    end  |-> Format(out.end),
                    text |-> out.text],
          last_end |-> out.end]
    ELSE [line |-> NoInputLine, last_end |-> le]

\* send_result without the replacement of the newlines
SendResultMsg_Raw(line) == line

\* send_result: msg = msg.replace("\n", " ")
SendResultMsg(line) == [line EXCEPT !.text = ReplaceNewlines(@)]

\* the characters of a line on the wire; "d" stands for the digits of a number
Wire(line) ==
    IF line.kind = "noinput" THEN <<"N", "o", " ", "i">>
    ELSE <<"d", " ", "d", " ">> \o line.text

\* line_packet.send_one_line: the line and one newline
SendOneLine(wire, line) == wire \o Wire(line) \o <<"\n">>

\* -------------------------------------------------------------- the peers
TotalWritten == LET RECURSIVE Sum(_)
                    Sum(p) == IF p = 0 THEN 0 ELSE Len(written[p]) + Sum(p - 1)
                IN Sum(MaxConns)

PeerConnect(p) ==
    /\ peer[p] = "idle"
    /\ \A q \in 1..(p - 1) : peer[q] # "idle"
    /\ peer' = [peer EXCEPT ![p] = "open"]
    /\ backlog' = Append(backlog, p)
    /\ UNCHANGED <<c2s, s2c, written, srvVars>>
    /\ UNCHANGED cliVars

PeerWrite(p, b, max) ==
    /\ peer[p] = "open"
    /\ ~sockClosed[p]
    /\ TotalWritten < max
    /\ c2s' = [c2s EXCEPT ![p] = Append(@, b)]
    /\ written' = [written EXCEPT ![p] = Append(@, b)]
    /\ UNCHANGED <<peer, backlog, s2c, srvVars>>
    /\ UNCHANGED cliVars

PeerClose(p, kind) ==
    /\ peer[p] = "open"
    /\ peer' = [peer EXCEPT ![p] = kind]
    /\ UNCHANGED <<backlog, c2s, s2c, written, srvVars>>
    /\ UNCHANGED cliVars

\* ------------------------------------------------------------- the server
\* the state a call of non_blocking_receive_audio starts in
EnterReceive ==
    /\ buffer' = << >>
    /\ bytes_needed' = PACKET_SIZE

\* a server loop that keeps one ServerProcessor for all its connections
NewServerProcessor_Reused ==
    [last_end |-> last_end, is_first |-> is_first, chunk_num |-> chunk_num]

\* ServerProcessor.__init__: the fields of a new session
NewServerProcessor ==
    [last_end |-> None, is_first |-> TRUE, chunk_num |-> 0]

\* conn, addr = s.accept(); Connection(conn); ServerProcessor(...)
ServerAccept ==
    /\ srv_pc = "accept"
    /\ backlog # << >>
    /\ conn' = Head(backlog)
    /\ backlog' = Tail(backlog)
    /\ opened' = [opened EXCEPT ![Head(backlog)] = @ + 1]
    /\ last_end' = NewServerProcessor.last_end
    /\ is_first' = NewServerProcessor.is_first
    /\ chunk_num' = NewServerProcessor.chunk_num
    /\ frames' = << >>
    /\ eos' = FALSE
    /\ inserted' = << >>
    /\ processed' = 0
    /\ sent' = << >>
    /\ sendFailed' = FALSE
    /\ srv_pc' = "init"
    /\ UNCHANGED <<peer, c2s, s2c, written, sockClosed, min_chunk,
                   buffer, bytes_needed, raw_bytes, o>>
    /\ UNCHANGED cliVars

\* process: self.online_asr_proc.init(), then the first receive_audio_chunk
ProcessInit ==
    /\ srv_pc = "init"
    /\ srv_pc' = "recv"
    /\ EnterReceive
    /\ UNCHANGED <<netVars, conn, sockClosed, min_chunk, opened,
                   raw_bytes, frames, eos, procVars>>
    /\ UNCHANGED cliVars

\* a loop that asks for a whole packet in every recv
BytesNeeded_WholePacket(buf) == PACKET_SIZE

\* bytes_needed = self.PACKET_SIZE - len(buffer)
BytesNeeded(buf) == PACKET_SIZE - Len(buf)

\* an error handler that hands out what the buffer holds
OnConnectionError_Partial(buf) == buf

\* the value non_blocking_receive_audio returns at a connection error
OnConnectionError(buf) == << >>

\* a close that completes the frame with silence
OnPeerClosed_Padded(buf) == buf \o [i \in 1..(PACKET_SIZE - Len(buf)) |-> 0]

\* if not fragment: return None if the buffer is empty, else the partial buffer
OnPeerClosed(buf) == buf

\* non_blocking_receive_audio returns r (<< >> for None) to receive_audio_chunk
ReturnFrame(r) ==
    /\ raw_bytes' = r
    /\ frames' = IF r = << >> THEN frames ELSE Append(frames, r)
    /\ eos' = (r = << >>)
    /\ srv_pc' = "chunk"

\* one iteration of the loop of non_blocking_receive_audio: one conn.recv
ReceiveFragment ==
    /\ srv_pc = "recv"
    /\ \/ \* recv returns 1..bytes_needed bytes of those in flight
          /\ \E k \in 1..Min(bytes_needed, Len(c2s[conn])) :
               LET fragment == Take(c2s[conn], k)
                   buffer2  == buffer \o fragment
               IN /\ c2s' = [c2s EXCEPT ![conn] = Drop(@, k)]
                  /\ buffer' = buffer2
                  /\ bytes_needed' = BytesNeeded(buffer2)
                  /\ IF Len(buffer2) < PACKET_SIZE
                     THEN UNCHANGED <<srv_pc, raw_bytes, frames, eos>>
                     ELSE ReturnFrame(buffer2)
       \/ \* recv returns b'': the peer has closed and nothing is in flight
          /\ c2s[conn] = << >>
          /\ peer[conn] = "fin"
          /\ ReturnFrame(OnPeerClosed(buffer))
          /\ UNCHANGED <<c2s, buffer, bytes_needed>>
       \/ \* recv raises ConnectionResetError or another socket.error
          /\ peer[conn] = "rst"
          /\ ReturnFrame(OnConnectionError(buffer))
          /\ UNCHANGED <<c2s, buffer, bytes_needed>>
    /\ UNCHANGED <<peer, backlog, s2c, written, conn, sockClosed, min_chunk,
                   opened, procVars>>
    /\ UNCHANGED cliVars

\* a minimum that is asked of every frame
BelowMinLimit_EveryFrame(first, n, mc) == n < mc * SAMPLING_RATE

\* receive_audio_chunk returns None: is_first and len(conc) < minlimit
BelowMinLimit(first, n, mc) == first /\ n < mc * SAMPLING_RATE

\* receive_audio_chunk, after non_blocking_receive_audio has returned
ReceiveAudioChunk ==
    /\ srv_pc = "chunk"
    /\ IF raw_bytes = << >>
       THEN /\ srv_pc' = "close"
            /\ UNCHANGED <<is_first, chunk_num>>
       ELSE IF BelowMinLimit(is_first, Samples(Len(raw_bytes)), min_chunk)
            THEN /\ srv_pc' = "close"
                 /\ UNCHANGED <<is_first, chunk_num>>
            ELSE /\ is_first' = FALSE
                 /\ chunk_num' = chunk_num + 1
                 /\ srv_pc' = "insert"
    /\ UNCHANGED <<netVars, conn, sockClosed, min_chunk, opened, recvVars,
                   last_end, o, inserted, processed, sent, sendFailed>>
    /\ UNCHANGED cliVars

\* process: self.online_asr_proc.insert_audio_chunk(a)
InsertAudioChunk ==
    /\ srv_pc = "insert"
    /\ inserted' = Append(inserted, Len(raw_bytes))
    /\ srv_pc' = "iter"
    /\ UNCHANGED <<netVars, conn, sockClosed, min_chunk, opened, recvVars,
                   is_first, chunk_num, last_end, o, processed, sent, sendFailed>>
    /\ UNCHANGED cliVars

\* process: o = online.process_iter()
ProcessIter(out) ==
    /\ srv_pc = "iter"
    /\ o' = out
    /\ processed' = processed + 1
    /\ srv_pc' = "send"
    /\ UNCHANGED <<netVars, conn, sockClosed, min_chunk, opened, recvVars,
                   is_first, chunk_num, last_end, inserted, sent, sendFailed>>
    /\ UNCHANGED cliVars

\* the recognizer raises: nothing in process or in the server loop catches it
RecognizerRaises ==
    /\ srv_pc \in {"init", "insert", "iter"}
    /\ srv_pc' = "dead"
    /\ UNCHANGED <<netVars, conn, sockClosed, min_chunk, opened, recvVars, procVars>>
    /\ UNCHANGED cliVars

\* a loop that goes on to the next frame after a send has failed
OnSendError_Continue == "recv"

\* except Exception as e: logger.error(...); break: process returns
OnSendError == "close"

\* process: try: self.send_result(o) except Exception: break
SendResult ==
    /\ srv_pc = "send"
    /\ LET f   == FormatOutputTranscript(o, last_end)
           msg == SendResultMsg(f.line)
       IN /\ last_end' = f.last_end
          /\ \/ \* the line is sent; the loop goes on to receive_audio_chunk
                /\ peer[conn] # "rst"
                /\ s2c' = [s2c EXCEPT ![conn] = SendOneLine(@, msg)]
                /\ sent' = Append(sent, msg)
                /\ srv_pc' = "recv"
                /\ EnterReceive
                /\ UNCHANGED sendFailed
             \/ \* the send raises: the loop breaks
                /\ peer[conn] # "open"
                /\ sendFailed' = TRUE
                /\ srv_pc' = OnSendError
                /\ IF OnSendError = "recv" THEN EnterReceive
                   ELSE UNCHANGED <<buffer, bytes_needed>>
                /\ UNCHANGED <<s2c, sent>>
    /\ UNCHANGED <<peer, backlog, c2s, written, conn, sockClosed, min_chunk,
                   opened, raw_bytes, frames, eos, is_first, chunk_num, o,
                   inserted, processed>>
    /\ UNCHANGED cliVars

\* a server loop that leaves the socket open
CloseSocket_Skipped(sc, p) == sc

\* conn.close()
CloseSocket(sc, p) == [sc EXCEPT ![p] = TRUE]

\* the server loop after proc.process() has returned
ServerClose ==
    /\ srv_pc = "close"
    /\ sockClosed' = CloseSocket(sockClosed, conn)
    /\ c2s' = [c2s EXCEPT ![conn] = << >>]    \* unread bytes are discarded
    /\ srv_pc' = "accept"
    /\ UNCHANGED <<peer, backlog, s2c, written, conn, min_chunk, opened,
                   recvVars, procVars>>
    /\ UNCHANGED cliVars

\* --------------------------------------------------------- specification
\* the server before the first accept, with nothing in flight
InitServer ==
    /\ c2s = [p \in Conns |-> << >>]
    /\ s2c = [p \in Conns |-> << >>]
    /\ written = [p \in Conns |-> << >>]
    /\ srv_pc = "accept"
    /\ conn = 0
    /\ sockClosed = [p \in Conns |-> FALSE]
    /\ opened = [p \in Conns |-> 0]
    /\ min_chunk \in MinChunkSizes
    /\ buffer = << >>
    /\ bytes_needed = PACKET_SIZE
    /\ raw_bytes = << >>
    /\ is_first = TRUE
    /\ chunk_num = 0
    /\ last_end = None
    /\ o = NoOutput
    /\ frames = << >>
    /\ eos = FALSE
    /\ inserted = << >>
    /\ processed = 0
    /\ sent = << >>
    /\ sendFailed = FALSE

\* no peer has connected and no client harness runs
Init ==
    /\ InitServer
    /\ peer = [p \in Conns |-> "idle"]
    /\ backlog = << >>
    /\ cl_pc = "off"
    /\ chunk_seconds = 8
    /\ pcm0 = << >>
    /\ pcm = << >>
    /\ data = << >>
    /\ chunk_count = 0
    /\ total_bytes_sent = 0
    /\ chunk_timestamps = << >>
    /\ cl_error = FALSE
    /\ matched = << >>
    /\ reported = << >>
    /\ recvs = 0
    /\ lines_out = << >>
    /\ eof_seen = FALSE

\* the peers and the server loop, with the bytes of the audio left abstract
Next ==
    \/ \E p \in Conns : PeerConnect(p)
    \/ \E p \in Conns : PeerWrite(p, 0, MaxBytes)
    \/ \E p \in Conns, kind \in {"fin", "rst"} : PeerClose(p, kind)
    \/ ServerAccept
    \/ ProcessInit
    \/ ReceiveFragment
    \/ ReceiveAudioChunk
    \/ InsertAudioChunk
    \/ \E out \in Outputs : ProcessIter(out)
    \/ RecognizerRaises
    \/ SendResult
    \/ ServerClose

Spec == Init /\ [][Next]_vars

\* one connection whose peer writes any bytes; the recognizer has no text
NextFraming ==
    \/ PeerConnect(1)
    \/ \E b \in Byte : PeerWrite(1, b, MaxStream)
    \/ \E kind \in {"fin", "rst"} : PeerClose(1, kind)
    \/ ServerAccept
    \/ ProcessInit
    \/ ReceiveFragment
    \/ ReceiveAudioChunk
    \/ InsertAudioChunk
    \/ ProcessIter(NoOutput)
    \/ RecognizerRaises
    \/ SendResult
    \/ ServerClose

SpecFraming == Init /\ [][NextFraming]_vars

\* one connection; the recognizer returns any interval or none
NextSession ==
    \/ PeerConnect(1)
    \/ PeerWrite(1, 0, MaxStream)
    \/ \E kind \in {"fin", "rst"} : PeerClose(1, kind)
    \/ ServerAccept
    \/ ProcessInit
    \/ ReceiveFragment
    \/ ReceiveAudioChunk
    \/ InsertAudioChunk
    \/ \E out \in Outputs : ProcessIter(out)
    \/ RecognizerRaises
    \/ SendResult
    \/ ServerClose

SpecSession == Init /\ [][NextSession]_vars

\* ------------------------------------------------------------- the client
RECV_SIZE == 4096                       \* sock.recv(4096)
bytes_per_second == SAMPLING_RATE * 2   \* sample rate * bytes per sample
\* chunk_size = int(bytes_per_second * chunk_seconds), chunk_seconds in quarters
chunk_size == (bytes_per_second * chunk_seconds) \div 4
\* the values of --interval the harness is started with here: 1.25 s and 2.0 s
ChunkIntervals == {5, 8}
\* the outputs of the transcoder: any bytes, up to MaxPcm of them
PcmStreams == UNION {[1..n -> Byte] : n \in 0..MaxPcm}
\* the outputs of the transcoder for a file of silence
PcmSilence == {[i \in 1..n |-> 0] : n \in 0..MaxPcm}
\* the lines the server side writes in answer
ResponseLines == {NoInputLine,
                  [kind |-> "interval", beg |-> 0, end |-> 1, text |-> << >>]}

Zeros(n) == [i \in 1..n |-> 0]

\* str.strip(): without the whitespace at both ends
IsSpace(c) == c \in {" ", "\n"}
RECURSIVE LStrip(_)
LStrip(str) == IF str # << >> /\ IsSpace(Head(str)) THEN LStrip(Tail(str)) ELSE str
RECURSIVE RStrip(_)
RStrip(str) == IF str # << >> /\ IsSpace(str[Len(str)])
               THEN RStrip(Take(str, Len(str) - 1)) ELSE str
Strip(str) == RStrip(LStrip(str))

\* str.split('\n'): the pieces between the newlines, at least one piece
RECURSIVE Split(_)
Split(str) ==
    IF \A i \in 1..Len(str) : str[i] # "\n" THEN <<str>>
    ELSE LET i == CHOOSE k \in 1..Len(str) :
                      str[k] = "\n" /\ \A j \in 1..(k - 1) : str[j] # "\n"
         IN <<Take(str, i - 1)>> \o Split(Drop(str, i))

\* messages = response.decode('utf-8', errors='replace').strip().split('\n')
Messages(response) == Split(Strip(response))

\* a queue that gives out its newest record
PopLeft_Newest(q) == [chunk |-> q[Len(q)], rest |-> Take(q, Len(q) - 1)]

\* chunk_timestamps.popleft(): the oldest record and the queue without it
PopLeft(q) == [chunk |-> Head(q), rest |-> Tail(q)]

\* for message in messages: if message and chunk_timestamps: popleft and report
RECURSIVE Correlate(_, _, _)
Correlate(msgs, q, m) ==
    IF msgs = << >> THEN [queue |-> q, matched |-> m]
    ELSE IF Head(msgs) # << >> /\ q # << >>
         THEN Correlate(Tail(msgs), PopLeft(q).rest,
                        Append(m, [chunk |-> PopLeft(q).chunk, message |-> Head(msgs)]))
         ELSE Correlate(Tail(msgs), q, m)

\* the server side of connection 1 is closed: recv returns b'' or raises
ServerGone == sockClosed[1] \/ srv_pc = "dead"

\* the poll is one of wait_for_final_responses and its recv returns b'' (or
\* raises): a record is pending, nothing is in flight, the server side is closed
ZeroLengthRead(next) ==
    next = "wait" /\ chunk_timestamps # << >> /\ s2c[1] = << >> /\ ServerGone

\* try_receive_response(sock, chunk_timestamps), after which the client is at next
TryReceiveResponse(next) ==
    /\ cl_pc' = next
    /\ \/ \* no record is pending, or select finds nothing to read, or recv
          \* returns b'' or raises (caught and printed)
          /\ chunk_timestamps = << >> \/ s2c[1] = << >>
          /\ eof_seen' = (eof_seen \/ ZeroLengthRead(next))
          /\ UNCHANGED <<s2c, chunk_timestamps, matched, recvs>>
       \/ \* recv returns 1..4096 of the characters in flight
          /\ chunk_timestamps # << >>
          /\ \E k \in 1..Min(RECV_SIZE, Len(s2c[1])) :
               LET response == Take(s2c[1], k)
                   r == Correlate(Messages(response), chunk_timestamps, matched)
               IN /\ s2c' = [s2c EXCEPT ![1] = Drop(@, k)]
                  /\ chunk_timestamps' = r.queue
                  /\ matched' = r.matched
                  /\ recvs' = recvs + 1
                  /\ UNCHANGED eof_seen
    /\ UNCHANGED <<peer, backlog, c2s, written, srvVars, chunk_seconds, pcm0, pcm,
                   data, chunk_count, total_bytes_sent, cl_error, reported, lines_out>>

\* the room left in the socket buffers between the harness and the server
Room == MaxInFlight - Len(c2s[1])

\* sock.sendall(bytes) on the non-blocking socket returns: the buffers take
\* all the bytes (or the other side is closed and this send is not refused yet)
SendallReturns(bytes) == sockClosed[1] \/ Len(bytes) <= Room

\* sock.sendall(bytes) on the non-blocking socket raises BlockingIOError: the
\* buffers are full after the part of the bytes they had room for
SendallBlocks(bytes) ==
    /\ ~sockClosed[1]
    /\ Len(bytes) > Room
    /\ written' = [written EXCEPT ![1] = @ \o Take(bytes, Room)]
    /\ c2s' = [c2s EXCEPT ![1] = @ \o Take(bytes, Room)]

\* sock.sendall(bytes): the bytes go on the wire of connection 1
Sendall(bytes) ==
    /\ written' = [written EXCEPT ![1] = @ \o bytes]
    /\ c2s' = IF sockClosed[1] THEN c2s ELSE [c2s EXCEPT ![1] = @ \o bytes]

\* data = ffmpeg_process.stdout.read(chunk_size); if not data: break
ReadChunk ==
    /\ cl_pc = "read"
    /\ data' = Take(pcm, Min(chunk_size, Len(pcm)))
    /\ pcm' = Drop(pcm, Min(chunk_size, Len(pcm)))
    /\ cl_pc' = IF pcm = << >> THEN "wait" ELSE "send"
    /\ UNCHANGED <<netVars, srvVars, chunk_seconds, pcm0, chunk_count, total_bytes_sent,
                   chunk_timestamps, cl_error, matched, reported, recvs, lines_out,
                   eof_seen>>

\* sock.sendall(data); chunk_count += 1; chunk_timestamps.append(...)
SendData ==
    /\ cl_pc = "send"
    /\ \/ /\ SendallReturns(data)
          /\ Sendall(data)
          /\ chunk_count' = chunk_count + 1
          /\ chunk_timestamps' = Append(chunk_timestamps, chunk_count + 1)
          /\ total_bytes_sent' = total_bytes_sent + Len(data)
          /\ cl_pc' = "pad"
          /\ UNCHANGED cl_error
       \/ \* sendall raises: the connection is closed on the other side
          /\ ServerGone
          /\ cl_pc' = "except"
          /\ cl_error' = TRUE
          /\ UNCHANGED <<c2s, written, chunk_count, chunk_timestamps, total_bytes_sent>>
       \/ \* sendall raises: the socket is non-blocking and its buffers are full
          /\ SendallBlocks(data)
          /\ cl_pc' = "except"
          /\ cl_error' = TRUE
          /\ UNCHANGED <<chunk_count, chunk_timestamps, total_bytes_sent>>
    /\ UNCHANGED <<peer, backlog, s2c, srvVars, chunk_seconds, pcm0, pcm, data,
                   matched, reported, recvs, lines_out,
                   eof_seen>>

\* without the padding of a short chunk
NeedsPadding_Never(n) == FALSE

\* len(data) < chunk_size and chunk_duration < chunk_seconds
NeedsPadding(n) == n < chunk_size /\ 4 * n < bytes_per_second * chunk_seconds

\* silence_bytes_needed = chunk_size - len(data)
SilenceBytesNeeded(n) == chunk_size - n

\* the padding of a partial final chunk
PadChunk ==
    /\ cl_pc = "pad"
    /\ IF NeedsPadding(Len(data))
       THEN \/ /\ SendallReturns(Zeros(SilenceBytesNeeded(Len(data))))
               /\ Sendall(Zeros(SilenceBytesNeeded(Len(data))))
               /\ total_bytes_sent' = total_bytes_sent + SilenceBytesNeeded(Len(data))
               /\ cl_pc' = "poll"
               /\ UNCHANGED cl_error
            \/ /\ ServerGone
               /\ cl_pc' = "except"
               /\ cl_error' = TRUE
               /\ UNCHANGED <<c2s, written, total_bytes_sent>>
            \/ /\ SendallBlocks(Zeros(SilenceBytesNeeded(Len(data))))
               /\ cl_pc' = "except"
               /\ cl_error' = TRUE
               /\ UNCHANGED total_bytes_sent
       ELSE /\ cl_pc' = "poll"
            /\ UNCHANGED <<c2s, written, total_bytes_sent, cl_error>>
    /\ UNCHANGED <<peer, backlog, s2c, srvVars, chunk_seconds, pcm0, pcm, data,
                   chunk_count, chunk_timestamps, matched, reported, recvs, lines_out,
                   eof_seen>>

\* try_receive_response right after the chunk is sent
PollAfterSend ==
    /\ cl_pc = "poll"
    /\ TryReceiveResponse("peek")

\* if ffmpeg_process.stdout.peek(): sleep and poll; else read again
PeekMoreData ==
    /\ cl_pc = "peek"
    /\ cl_pc' = IF pcm # << >> THEN "sleep" ELSE "read"
    /\ UNCHANGED <<netVars, srvVars, chunk_seconds, pcm0, pcm, data, chunk_count,
                   total_bytes_sent, chunk_timestamps, cl_error, matched, reported,
                   recvs, lines_out,
                   eof_seen>>

\* while time.time() - start_time < chunk_seconds: try_receive_response
SleepPoll ==
    /\ cl_pc = "sleep"
    /\ TryReceiveResponse("sleep")

\* chunk_seconds have passed
SleepOver ==
    /\ cl_pc = "sleep"
    /\ cl_pc' = "read"
    /\ UNCHANGED <<netVars, srvVars, chunk_seconds, pcm0, pcm, data, chunk_count,
                   total_bytes_sent, chunk_timestamps, cl_error, matched, reported,
                   recvs, lines_out,
                   eof_seen>>

\* wait_for_final_responses: while time.time() < end_time and chunk_timestamps
WaitPoll ==
    /\ cl_pc = "wait"
    /\ chunk_timestamps # << >>
    /\ TryReceiveResponse("wait")

\* wait_for_final_responses returns: no record is pending, or the timeout has passed
WaitOver ==
    /\ cl_pc = "wait"
    /\ cl_pc' = "report"
    /\ UNCHANGED <<netVars, srvVars, chunk_seconds, pcm0, pcm, data, chunk_count,
                   total_bytes_sent, chunk_timestamps, cl_error, matched, reported,
                   recvs, lines_out,
                   eof_seen>>

\* the report of the chunks that never received responses
ReportUnanswered ==
    /\ cl_pc = "report"
    /\ reported' = chunk_timestamps
    /\ cl_pc' = "finally"
    /\ UNCHANGED <<netVars, srvVars, chunk_seconds, pcm0, pcm, data, chunk_count,
                   total_bytes_sent, chunk_timestamps, cl_error, matched, recvs, lines_out,
                   eof_seen>>

\* except Exception as e: print; then the finally clause
ExceptClause ==
    /\ cl_pc = "except"
    /\ cl_pc' = "finally"
    /\ UNCHANGED <<netVars, srvVars, chunk_seconds, pcm0, pcm, data, chunk_count,
                   total_bytes_sent, chunk_timestamps, cl_error, matched, reported,
                   recvs, lines_out,
                   eof_seen>>

\* finally: ffmpeg_process.terminate(); sock.close()
FinallyClause ==
    /\ cl_pc = "finally"
    /\ peer' = [peer EXCEPT ![1] = "fin"]
    /\ cl_pc' = "done"
    /\ UNCHANGED <<backlog, c2s, s2c, written, srvVars, chunk_seconds, pcm0, pcm, data,
                   chunk_count, total_bytes_sent, chunk_timestamps, cl_error, matched,
                   reported, recvs, lines_out,
                   eof_seen>>

\* the server side of the client's connection writes a line
EnvServerSendLine(msg, max) ==
    /\ ~ServerGone
    /\ Len(lines_out) < max
    /\ s2c' = [s2c EXCEPT ![1] = SendOneLine(@, msg)]
    /\ lines_out' = Append(lines_out, Wire(msg))
    /\ UNCHANGED <<peer, backlog, c2s, written, srvVars, cl_pc, chunk_seconds, pcm0,
                   pcm, data, chunk_count, total_bytes_sent, chunk_timestamps,
                   cl_error, matched, reported, recvs, eof_seen>>

\* the server side of the client's connection closes it
EnvServerClose ==
    /\ ~ServerGone
    /\ sockClosed' = CloseSocket(sockClosed, 1)
    /\ UNCHANGED <<netVars, srv_pc, conn, min_chunk, opened, recvVars, procVars, cliVars>>

\* the harness has connected and started the transcoder
InitClient(streams) ==
    /\ InitServer
    /\ peer = [p \in Conns |-> IF p = 1 THEN "open" ELSE "idle"]
    /\ backlog = <<1>>
    /\ cl_pc = "read"
    /\ chunk_seconds \in ChunkIntervals
    /\ pcm0 \in streams
    /\ pcm = pcm0
    /\ data = << >>
    /\ chunk_count = 0
    /\ total_bytes_sent = 0
    /\ chunk_timestamps = << >>
    /\ cl_error = FALSE
    /\ matched = << >>
    /\ reported = << >>
    /\ recvs = 0
    /\ lines_out = << >>
    /\ eof_seen = FALSE

\* the steps of the client harness
ClientStep ==
    \/ ReadChunk
    \/ SendData
    \/ PadChunk
    \/ PollAfterSend
    \/ PeekMoreData
    \/ SleepPoll
    \/ SleepOver
    \/ WaitPoll
    \/ WaitOver
    \/ ReportUnanswered
    \/ ExceptClause
    \/ FinallyClause

\* the client harness on a file of silence, against a server side that writes
\* lines and closes
NextClient ==
    \/ ClientStep
    \/ \E msg \in ResponseLines : EnvServerSendLine(msg, MaxLines)
    \/ EnvServerClose

SpecClient == InitClient(PcmSilence) /\ [][NextClient]_vars

\* the client harness on any audio, against a server side that writes one
\* line and closes
NextPacing ==
    \/ ClientStep
    \/ EnvServerSendLine(NoInputLine, 1)
    \/ EnvServerClose

SpecPacing == InitClient(PcmStreams) /\ [][NextPacing]_vars

\* ----------------------------------------------------------------- claims
\* a session is in progress on connection conn
InSession == conn # 0 /\ ~sockClosed[conn] /\ srv_pc \notin {"accept", "init"}

\* the fragments recv has returned on connection conn, concatenated: the bytes
\* written that are no longer in flight
Fragments == Take(written[conn], Len(written[conn]) - Len(c2s[conn]))

\* C1: on a connection that is not reset, the frames returned by
\* non_blocking_receive_audio (with the buffer of the call in progress)
\* concatenate to the fragments received, every frame but the last has
\* exactly PACKET_SIZE bytes, and after a clean close the frames returned up
\* to the end-of-stream concatenate to the whole stream the peer wrote.
C1_FramesAreTheStream ==
    (InSession /\ peer[conn] # "rst") =>
        /\ Concat(frames) \o (IF srv_pc = "recv" THEN buffer ELSE << >>) = Fragments
        /\ \A i \in 1..(Len(frames) - 1) : Len(frames[i]) = PACKET_SIZE
        /\ \A i \in 1..Len(frames) : Len(frames[i]) \in 1..PACKET_SIZE
        /\ eos => Concat(frames) = written[conn]

\* C1 witness: a stream of two full frames and one byte, with both byte values,
\* read to the end-of-stream after a clean close
C1_Witness ==
    /\ InSession /\ eos /\ peer[conn] = "fin"
    /\ Len(frames) = 3 /\ Len(frames[3]) = 1
    /\ \E i, j \in 1..Len(written[conn]) : written[conn][i] # written[conn][j]

IsInterval(line) == line.kind = "interval"
Intervals == SelectSeq(sent, IsInterval)

C3_IntervalsDoNotOverlap ==
    \A i \in 2..Len(Intervals) : Intervals[i].beg >= Intervals[i - 1].end

\* C3 witness: an interval, a "No input" line and an interval whose begin was
\* raised to the end of the first
C3_Witness ==
    /\ srv_pc = "recv"
    /\ Len(sent) = 3
    /\ IsInterval(sent[1]) /\ sent[2] = NoInputLine /\ IsInterval(sent[3])
    /\ ~o.none
    /\ Format(o.beg) < sent[3].beg
    /\ sent[3].beg = sent[1].end

\* C9 as stated: the session is not closed while the peer still holds the
\* connection open (a first frame below the minimum does not end it).
C9_WarmingUpKeepsTheSession ==
    srv_pc = "close" => peer[conn] # "open"

\* the connections with a session: accepted and not closed
Active == {p \in Conns : opened[p] > 0 /\ ~sockClosed[p]}

\* C10: at most one connection is accepted and not closed; accept returns
\* only when every connection accepted before is closed; and bytes are taken
\* only from the connection of the one session, never from another.
C10_OneSessionAtATime ==
    /\ [](Cardinality(Active) <= 1)
    /\ [][(srv_pc = "accept" /\ srv_pc' = "init") => Active = {}]_vars
    /\ [][\A p \in Conns : Len(c2s'[p]) < Len(c2s[p]) => Active = {p} /\ conn = p]_vars

\* C10 witness: the second connection is served after the first was closed,
\* and a frame of it has been processed
C10_Witness ==
    /\ conn = 2
    /\ sockClosed[1]
    /\ opened[1] = 1
    /\ Len(sent) >= 1

\* the characters of the lines ls, each with its newline
RECURSIVE WireOf(_)
WireOf(ls) == IF ls = << >> THEN << >> ELSE Head(ls) \o <<"\n">> \o WireOf(Tail(ls))

\* C4: when N chunks are pending, nothing was received before and one receive
\* returns the N lines the server has written, the i-th report is for chunk
\* i with the text of the i-th line, and no record stays pending.
C4_FifoCorrelation ==
    [][(/\ recvs' = recvs + 1
        /\ recvs = 0
        /\ Len(lines_out) >= 1
        /\ Len(chunk_timestamps) = Len(lines_out)
        /\ chunk_count = Len(lines_out)
        /\ s2c[1] = WireOf(lines_out)
        /\ s2c'[1] = << >>)
       => /\ chunk_timestamps' = << >>
          /\ Len(matched') = Len(lines_out)
          /\ \A i \in 1..Len(lines_out) :
               /\ matched'[i].chunk = i
               /\ matched'[i].message =
                    IF i = Len(lines_out) THEN Strip(lines_out[i]) ELSE lines_out[i]]_vars

\* C4 witness: two chunks were sent, the two lines for them came in the one
\* receive there was, and both are reported
C4_Witness ==
    /\ recvs = 1
    /\ chunk_count = 2
    /\ Len(lines_out) = 2
    /\ lines_out[1] # lines_out[2]
    /\ s2c[1] = << >>
    /\ Len(matched) = 2
    /\ chunk_timestamps = << >>

\* C5 as stated: the responses reported, each consuming one record, are never
\* more than the lines the server has written.
C5_OneRecordPerLine ==
    Len(matched) <= Len(lines_out)

\* the bytes of the transcoder the client has read
Consumed == Take(pcm0, Len(pcm0) - Len(pcm))

\* s, filled with zero bytes up to a multiple of n
Padded(s, n) == s \o Zeros((n - (Len(s) % n)) % n)

\* an iteration of the send loop is complete, or the loop has ended by a
\* zero-byte read
IterationComplete ==
    \/ cl_pc \in {"poll", "peek", "sleep", "read"}
    \/ cl_pc \in {"wait", "report", "finally", "done"} /\ ~cl_error

\* C6: after every completed iteration of the send loop the bytes on the wire
\* are the bytes read from the transcoder, a short last chunk filled with zero
\* bytes to chunk_size; their number is total_bytes_sent, a multiple of
\* chunk_size, with one record per chunk; a zero-byte read sends nothing.
C6_ShortChunkIsPadded ==
    IterationComplete =>
        /\ written[1] = Padded(Consumed, chunk_size)
        /\ total_bytes_sent = Len(written[1])
        /\ total_bytes_sent = chunk_count * chunk_size
        /\ cl_pc \in {"wait", "report", "finally", "done"} =>
               written[1] = Padded(pcm0, chunk_size)

\* C6 witness: the loop has ended after a second chunk of one byte, not zero,
\* that was padded
C6_Witness ==
    /\ cl_pc = "wait"
    /\ ~cl_error
    /\ chunk_count = 2
    /\ Len(pcm0) = chunk_size + 1
    /\ pcm0[Len(pcm0)] = 1
    /\ Len(written[1]) = 2 * chunk_size

\* the number of entries of a sequence that satisfy Test
CountOf(seq, Test(_)) == Len(SelectSeq(seq, Test))

\* C7 as stated: when send_audio_in_chunks has ended, every record created
\* was either popped for a response or listed as having no response, once.
C7_EveryRecordConsumedOnce ==
    cl_pc = "done" =>
        \A n \in 1..chunk_count :
            LET IsN(c) == c = n
                ForN(m) == m.chunk = n
            IN CountOf(reported, IsN) + CountOf(matched, ForN) = 1

\* C11 as stated: whatever ends a session (the peer closing, a reset or a
\* socket error on a read, a send that fails, an exception of the recognizer)
\* the server process stays alive to accept the next connection.
C11_ServerStaysAlive ==
    srv_pc # "dead"

\* ------------------------------------------- the harness against the server
\* the output of the transcoder for 5.0 seconds of silence
PcmFiveSeconds == {Zeros(5 * bytes_per_second)}

\* what the recognizer returns in the end-to-end runs: nothing, or an interval
ScenarioOutputs == {NoOutput, [none |-> FALSE, beg |-> 0, end |-> 1, text |-> << >>]}

\* the harness is interrupted: the interrupt is no Exception, the finally
\* clause closes the socket with responses unread and the peer sees a reset
ClientKilled ==
    /\ cl_pc \notin {"off", "done", "killed"}
    /\ peer[1] = "open"
    /\ peer' = [peer EXCEPT ![1] = "rst"]
    /\ cl_pc' = "killed"
    /\ UNCHANGED <<backlog, c2s, s2c, written, srvVars, chunk_seconds, pcm0, pcm, data,
                   chunk_count, total_bytes_sent, chunk_timestamps, cl_error, matched,
                   reported, recvs, lines_out,
                   eof_seen>>

\* the client harness connected to the server, with the recognizer abstract
NextEndToEnd ==
    \/ ClientStep
    \/ ClientKilled
    \/ ServerAccept
    \/ ProcessInit
    \/ ReceiveFragment
    \/ ReceiveAudioChunk
    \/ InsertAudioChunk
    \/ \E out \in ScenarioOutputs : ProcessIter(out)
    \/ RecognizerRaises
    \/ SendResult
    \/ ServerClose

SpecEndToEnd == InitClient(PcmFiveSeconds) /\ [][NextEndToEnd]_vars

\* the bytes of chunk n among the bytes the harness has written
ChunkOnWire(n) ==
    SubSeq(written[1], (n - 1) * chunk_size + 1, Min(n * chunk_size, Len(written[1])))

\* C12 as stated: whatever --interval the harness is started with, a frame
\* the server reassembles is one chunk of the harness, the chunk with the
\* same number, and no more lines are sent than records were created.
C12_OneFramePerChunk ==
    /\ \A i \in 1..Len(frames) :
           /\ i <= chunk_count
           /\ Len(frames[i]) = chunk_size
           /\ frames[i] = ChunkOnWire(i)
    /\ Len(sent) <= chunk_count

\* C13 as stated: with 5.0 s of audio, --interval 2.0 and a minimum chunk of
\* 1.0 s, under any fragmentation of the audio stream, the harness sends
\* three chunks of chunk_size bytes (the third padded), the server
\* reassembles them as its frames, leaves the warm-up with the first and
\* sends one line per frame, and the harness matches line k to chunk k.
C13_FiveSecondsEndToEnd ==
    (chunk_seconds = 8 /\ min_chunk = 1) =>
        /\ chunk_count <= 3
        /\ (cl_pc \in {"wait", "report", "finally", "done"} /\ ~cl_error) =>
               /\ chunk_count = 3
               /\ written[1] = Zeros(3 * chunk_size)
        /\ \A i \in 1..Len(frames) : i <= 3 /\ frames[i] = ChunkOnWire(i)
        /\ (Len(frames) >= 1 /\ srv_pc # "chunk") => ~is_first
        /\ Len(sent) <= Len(frames)
        /\ \A k \in 1..Len(matched) :
               /\ matched[k].chunk = k
               /\ k <= Len(sent)
               /\ Strip(matched[k].message) = Strip(Wire(sent[k]))
        /\ (cl_pc = "done" /\ ~cl_error /\ reported = << >>) =>
               Len(matched) = 3 /\ Len(sent) = 3

\* C14: when the peer closes without having written a byte, the first read
\* of the session returns zero bytes and non_blocking_receive_audio signals
\* the end of the stream at once: no frame is returned, the recognizer is
\* given no audio, process_iter is not called, no line is sent, and the
\* server closes the connection and is back at accept. (The server is "dead"
\* here only when online.init() has raised, before any read.)
C14_EmptyStreamEndsTheSession ==
    /\ (conn # 0 /\ written[conn] = << >> /\ peer[conn] = "fin") =>
           /\ frames = << >> /\ inserted = << >> /\ processed = 0
           /\ sent = << >> /\ s2c[conn] = << >>
           /\ srv_pc \in {"init", "recv", "chunk", "close", "accept", "dead"}
           /\ srv_pc = "chunk" => eos /\ raw_bytes = << >>
           /\ srv_pc = "close" => eos
           /\ srv_pc = "accept" => sockClosed[conn]
    /\ \A p \in Conns :
           (p # conn /\ opened[p] > 0 /\ written[p] = << >> /\ peer[p] = "fin") =>
               sockClosed[p] /\ s2c[p] = << >>

\* C14 witness: the first connection was closed with nothing written, its
\* session is over, and the server has accepted the second connection
C14_Witness ==
    /\ conn = 2
    /\ srv_pc = "recv"
    /\ opened[1] = 1
    /\ peer[1] = "fin"
    /\ written[1] = << >>
    /\ sockClosed[1]

\* C15 as stated: a reset met by non_blocking_receive_audio gives what a clean
\* close gives at the same point: the call returns the bytes it has
\* accumulated, as a short final frame, and signals the end of the stream
\* only when it has accumulated none.
C15_ResetIsACleanClose ==
    (srv_pc = "chunk" /\ peer[conn] = "rst") =>
        /\ raw_bytes = buffer
        /\ eos <=> buffer = << >>

\* C16 as stated: a zero-length read ends the final wait: once a recv of
\* wait_for_final_responses has returned b'' with records pending, the loop
\* is over and the harness goes on to its report and closes.
C16_ZeroLengthReadEndsTheWait ==
    cl_pc = "wait" => ~eof_seen

\* the last frame returned by non_blocking_receive_audio is a short one
ShortFinalFrame == frames # << >> /\ Len(frames[Len(frames)]) < PACKET_SIZE

\* the short final frame is shorter than the minimum chunk and is the first
\* frame of the connection
ShortFirstFrame ==
    /\ ShortFinalFrame
    /\ Len(frames) = 1
    /\ Samples(Len(frames[1])) < min_chunk * SAMPLING_RATE

\* the session has gone on past the last frame returned: it waits for the
\* next frame, or is over
FrameHandled == srv_pc \in {"recv", "close", "accept"}

\* C17 as stated: a short final frame is handed to the recognizer and one
\* line is sent for it before the session closes, be it the first frame of
\* the connection or a later one (when no send fails).
C17_ShortFrameIsProcessed ==
    (ShortFinalFrame /\ FrameHandled /\ ~sendFailed) =>
        /\ Len(inserted) = Len(frames)
        /\ inserted[Len(inserted)] = Len(frames[Len(frames)])
        /\ processed = Len(frames)
        /\ Len(sent) = Len(frames)

\* C17: a short final frame is handed to the recognizer and, when no send
\* fails, one line is sent for it before the session closes, unless it is the
\* first frame of the connection and shorter than the minimum chunk: then it
\* is dropped, the recognizer is given nothing and no line is sent. No frame
\* follows a short one.
C17_ShortFrameIsProcessedUnlessFirst ==
    (ShortFinalFrame /\ FrameHandled) =>
        /\ ShortFirstFrame =>
               inserted = << >> /\ processed = 0 /\ sent = << >> /\ srv_pc # "recv"
        /\ ~ShortFirstFrame =>
               /\ Len(inserted) = Len(frames)
               /\ inserted[Len(inserted)] = Len(frames[Len(frames)])
               /\ processed = Len(frames)
               /\ ~sendFailed => Len(sent) = Len(frames)
               /\ sendFailed => Len(sent) = Len(frames) - 1 /\ srv_pc # "recv"
        /\ \A i \in 1..(Len(frames) - 1) : Len(frames[i]) = PACKET_SIZE

\* C17 witness: after a full frame a short final frame was processed and its
\* line sent, and the session is over
C17_Witness ==
    /\ srv_pc = "close"
    /\ eos
    /\ ~sendFailed
    /\ Len(frames) = 2
    /\ Len(frames[2]) = 1
    /\ inserted = <<PACKET_SIZE, 1>>
    /\ Len(sent) = 2

\* C18: when the send of a result line raises, the session ends at once: the
\* server goes on to close the connection, the send is not tried again, no
\* further frame is received or handed to the recognizer, process_iter is
\* not called again and no further line is sent on the connection.
C18_FailedSendEndsTheSession ==
    sendFailed =>
        /\ srv_pc \in {"close", "accept"}
        /\ processed = Len(sent) + 1
        /\ Len(inserted) = processed
        /\ Len(frames) = Len(inserted)
        /\ ~eos
        /\ srv_pc = "accept" => sockClosed[conn]

\* C18 witness: the first line was sent, the send of the second has failed,
\* and the session is ending with bytes of a third frame unread
C18_Witness ==
    /\ sendFailed
    /\ srv_pc = "close"
    /\ Len(sent) = 1
    /\ Len(frames) = 2
    /\ c2s[conn] # << >>

\* C19: when send_result formats an interval of the recognizer, the line has
\* the raw end as its end; its begin is the previous last_end when the raw
\* begin is less than it, and the raw begin when it is not less or when no
\* interval was formatted yet on the connection (each printed with "%1.0f");
\* and in every case last_end becomes the raw end.
C19_ClampAndLastEnd ==
    [][(srv_pc = "send" /\ srv_pc' # "send" /\ ~o.none) =>
          /\ last_end' = o.end
          /\ Len(sent') = Len(sent) + 1 =>
                 LET l == sent'[Len(sent')]
                 IN /\ l.kind = "interval"
                    /\ l.end = Format(o.end)
                    /\ (last_end # None /\ o.beg < last_end) =>
                           l.beg = Format(last_end)
                    /\ (last_end = None \/ o.beg >= last_end) =>
                           l.beg = Format(o.beg)]_vars

\* C19 witness: the second interval began before the end of the first: its
\* line begins at that end, and last_end has moved back to its raw end
C19_Witness ==
    /\ srv_pc = "recv"
    /\ Len(sent) = 2
    /\ IsInterval(sent[1]) /\ IsInterval(sent[2])
    /\ ~o.none
    /\ Format(o.beg) < sent[2].beg
    /\ sent[2].beg = sent[1].end
    /\ sent[2].end < sent[1].end
    /\ last_end = o.end

\* the bytes a recv of the reassembly loop has taken off the wire in a step
BytesRead == Len(c2s[conn]) - Len(c2s'[conn])

\* C20: the reassembly loop of non_blocking_receive_audio never spins: at
\* every iteration the bytes asked of recv are between 1 and PACKET_SIZE and
\* are PACKET_SIZE less the length of the buffer; the buffer never exceeds
\* PACKET_SIZE; an iteration whose recv delivers data grows the buffer by
\* that data, and returns it once it holds PACKET_SIZE bytes; an iteration
\* whose recv delivers nothing returns. So a call returns after at most
\* PACKET_SIZE reads that deliver data, or at the first that delivers none.
C20_ReassemblyNeverSpins ==
    /\ [](Len(buffer) <= PACKET_SIZE)
    /\ [](srv_pc = "recv" =>
              /\ bytes_needed \in 1..PACKET_SIZE
              /\ bytes_needed = PACKET_SIZE - Len(buffer))
    /\ [][srv_pc = "recv" =>
              /\ BytesRead >= 0
              /\ BytesRead > 0 =>
                     /\ BytesRead <= bytes_needed
                     /\ buffer' = buffer \o Take(c2s[conn], BytesRead)
                     /\ Len(buffer') > Len(buffer)
                     /\ srv_pc' = IF Len(buffer') = PACKET_SIZE THEN "chunk" ELSE "recv"
              /\ (BytesRead = 0 /\ srv_pc' # "recv") =>
                     /\ srv_pc' = "chunk"
                     /\ buffer' = buffer
                     /\ eos' \/ raw_bytes' = buffer]_<<srv_pc, buffer, bytes_needed, raw_bytes, eos>>

\* C20 witness: in the second call the loop has read all but one byte of the
\* frame and asks for that byte, with more than one byte in flight
C20_Witness ==
    /\ srv_pc = "recv"
    /\ Len(frames) = 1
    /\ Len(buffer) = PACKET_SIZE - 1
    /\ bytes_needed = 1
    /\ Len(c2s[conn]) > 1

\* C21 as stated: the send path does not depend on responses: while the
\* server is connected and has sent no response, the harness leaves its send
\* loop only at the end of the input, with every chunk transmitted (the last
\* padded) and the records of all chunks pending, in order.
C21_SendPathIgnoresResponses ==
    (cl_pc \in {"wait", "except"} /\ sent = << >> /\ ~ServerGone) =>
        /\ cl_pc = "wait"
        /\ written[1] = Padded(pcm0, chunk_size)
        /\ chunk_count * chunk_size = Len(written[1])
        /\ chunk_timestamps = [i \in 1..chunk_count |-> i]

\* C22: at every point of the harness's run the pending queue holds the
\* records of the chunks sent and not yet matched, with consecutive
\* increasing numbers from head to tail; the records are consumed in the
\* order of their creation, so the numbers reported for the responses are
\* 1, 2, 3, ... with no gap and no repeat; and no record is popped from an
\* empty queue: no more records are matched than were created.
C22_QueueIsFifo ==
    /\ Len(matched) <= chunk_count
    /\ \A i \in 1..Len(matched) : matched[i].chunk = i
    /\ chunk_timestamps = [i \in 1..(chunk_count - Len(matched)) |-> Len(matched) + i]

\* C22 witness: three chunks were sent, the first is matched to a response
\* and the records of the second and the third are pending, in that order
C22_Witness ==
    /\ chunk_count = 3
    /\ Len(matched) = 1
    /\ matched[1].chunk = 1
    /\ chunk_timestamps = <<2, 3>>

\* C23: no session state is carried from one connection to the next: when a
\* connection has been accepted, before the recognizer's init and the first
\* read, is_first is true, chunk_num is 0, last_end is none and no audio was
\* inserted; and the first interval sent on a connection has its raw begin:
\* it is not clamped against an end time of an earlier connection.
C23_FreshSessionPerConnection ==
    /\ [](srv_pc = "init" =>
              /\ is_first /\ chunk_num = 0 /\ last_end = None
              /\ inserted = << >> /\ processed = 0 /\ sent = << >>)
    /\ [](Intervals = << >> /\ srv_pc # "accept" /\ ~sendFailed => last_end = None)
    /\ [][(srv_pc = "send" /\ ~o.none /\ Intervals = << >>
              /\ Len(sent') = Len(sent) + 1) =>
             sent'[Len(sent')].beg = Format(o.beg)]_vars

\* C23 witness: an interval was sent on the first connection, and the first
\* interval of the second connection is sent with its raw begin of 0
C23_Witness ==
    /\ conn = 2
    /\ srv_pc = "recv"
    /\ s2c[1] # << >> /\ Head(s2c[1]) = "d"
    /\ Len(sent) = 1
    /\ IsInterval(sent[1])
    /\ ~o.none /\ o.beg = 0
    /\ sent[1].beg = 0

\* the outputs of a recognizer whose intervals have begin <= end
IsWellFormed(out) == out.none \/ out.beg <= out.end
WellFormedOutputs == {out \in Outputs : IsWellFormed(out)}

\* one connection; the recognizer returns none or an interval with begin <= end
NextWellFormed ==
    \/ PeerConnect(1)
    \/ PeerWrite(1, 0, MaxStream)
    \/ \E kind \in {"fin", "rst"} : PeerClose(1, kind)
    \/ ServerAccept
    \/ ProcessInit
    \/ ReceiveFragment
    \/ ReceiveAudioChunk
    \/ InsertAudioChunk
    \/ \E out \in WellFormedOutputs : ProcessIter(out)
    \/ RecognizerRaises
    \/ SendResult
    \/ ServerClose

SpecWellFormed == Init /\ [][NextWellFormed]_vars

\* C24 as stated: when every output of the recognizer has begin <= end, every
\* interval line sent has begin_ms <= end_ms: the clamp to the previous
\* last_end never puts the begin after the end.
C24_IntervalsAreWellFormed ==
    \A i \in 1..Len(Intervals) : Intervals[i].beg <= Intervals[i].end

\* C24: when every output of the recognizer has begin <= end, an interval line
\* is sent with begin_ms <= end_ms if no interval came before it on the
\* connection or its raw end is not less than the previous last_end; when its
\* raw end is less than the previous last_end the line has that last_end as
\* its begin and the raw end as its end, a begin that is not before the end.
C24_WellFormedUnlessEndMovesBack ==
    [][(srv_pc = "send" /\ ~o.none /\ Len(sent') = Len(sent) + 1) =>
          LET l == sent'[Len(sent')]
          IN /\ (last_end = None \/ o.end >= last_end) => l.beg <= l.end
             /\ (last_end # None /\ o.end < last_end) =>
                    /\ l.beg = Format(last_end)
                    /\ l.end = Format(o.end)
                    /\ l.beg >= l.end]_vars

\* C24 witness: the second interval began before the end of the first and
\* ended no earlier: its line begins at that end and is well formed
C24_Witness ==
    /\ srv_pc = "recv"
    /\ Len(sent) = 2
    /\ IsInterval(sent[1]) /\ IsInterval(sent[2])
    /\ ~o.none
    /\ o.beg < o.end
    /\ Format(o.beg) < sent[2].beg
    /\ sent[2].beg = sent[1].end
    /\ sent[2].beg <= sent[2].end
    /\ last_end = o.end

====
